---- MODULE Spec2Model ----
(***************************************************************************)
(* The course synchronisation script (src/unnamed/part_000, lines 1-326):  *)
(* main() purges the five tables, walks course / chapter / lesson / task / *)
(* condition, and then links the lessons of each course (previous, next).  *)
(* One action per awaited operation of main().                             *)
(***************************************************************************)
EXTENDS Integers, Sequences, FiniteSets, TLC

\* ------------------------------------------------------------------ bounds
MaxCourses == 2
MaxChapters == 2
MaxLessons == 2
MaxTasks == 1
MaxConds == 2
MaxPurgeFaults == 1

\* ------------------------------------------------------------- JS values
\* undefined / null / an unset column; every name, key and pointer of the
\* model is a non-empty tuple, so the empty tuple stands apart from them.
NULL == <<>>

Last(s) == s[Len(s)]

\* ------------------------------------------------ String.replace / lower
Upper == {"A", "B", "P"}
AlphaNum == {"a", "b", "c", "p", "1", "2"} \cup Upper

ToLowerCase(ch) ==
    CASE ch = "A" -> "a" [] ch = "B" -> "b" [] ch = "P" -> "p" [] OTHER -> ch

\* name.replace(/[^a-z0-9]/gi, "-").toLowerCase(): character by character.
PathSafe(name) ==
    [n \in DOMAIN name |->
        IF name[n] \in AlphaNum THEN ToLowerCase(name[n]) ELSE "-"]

\* ----------------------------------------------------- the content tree
\* Declared chapter names, by position in course.yaml's `chapters`.
ChapterNames == << <<"A", " ", "1">>, <<"b", "_", "2">>, <<"c", ".", "a">>,
                   <<"B", "-", "b">> >>

ChapterName(h) == ChapterNames[((h - 1) % Len(ChapterNames)) + 1]

\* Condition values: strings, here split at "/" (t/c.p, l/c-P, true, t).
FileA == <<"path", <<"t">>, <<"c", ".", "p">> >>
FileB == <<"path", <<"l">>, <<"c", "-", "P">> >>
Literal == <<"path", <<"t", "r", "u", "e">> >>
Folder == <<"path", <<"t">> >>
CondValues == {FileA, FileB, Literal, Folder}

\* What stat() finds in a lesson directory.
RegularFiles == {FileA, FileB}
Directories == {Folder, <<"path", <<"l">> >>}

SeqsUpTo(S, n) == UNION {[1..m -> S] : m \in 0..n}

CondLists == SeqsUpTo(CondValues, MaxConds)

Condition(v) == [type |-> <<"type">>, in |-> <<"in">>, is |-> <<"is">>, value |-> v]

Task(j, cl) ==
    [instructions |-> <<"instructions", j>>, completed_by_default |-> FALSE,
     conditions |-> [n \in DOMAIN cl |-> Condition(cl[n])]]

\* A lesson's shape: its guide.md (ok, missing, or front matter without a
\* name), whether workspace/ exists, whether the front matter has `tasks`.
LessonShapes ==
    {[guide |-> g, workspace |-> w, hasTasks |-> TRUE,
      tasks |-> [j \in 1..t |-> cl]] :
        g \in {"ok", "noname"}, w \in BOOLEAN, t \in 0..MaxTasks, cl \in CondLists}
    \cup {[guide |-> g, workspace |-> w, hasTasks |-> FALSE, tasks |-> <<>>] :
        g \in {"ok", "missing"}, w \in BOOLEAN}

PlainLesson == [guide |-> "ok", workspace |-> FALSE, hasTasks |-> TRUE, tasks |-> <<>>]

LessonDir(c, h, n, shape) ==
    [path |-> <<"dir", c, h, n>>,
     guide |-> shape.guide,
     name |-> IF shape.guide = "noname" THEN NULL ELSE <<"lesson", c, h, n>>,
     environment |-> <<"env">>,
     body |-> <<"body", c, h, n>>,
     workspace |-> shape.workspace,
     hasTasks |-> shape.hasTasks,
     tasks |-> [j \in DOMAIN shape.tasks |-> Task(j - 1, shape.tasks[j])]]

\* A chapter directory: absent, or holding n lesson directories.
ChapterDirs == {[exists |-> FALSE, n |-> 0]} \cup
               {[exists |-> TRUE, n |-> n] : n \in 0..MaxLessons}
ChapterLayouts == SeqsUpTo(ChapterDirs, MaxChapters)

\* The layout of the spec's navigation example: c0 (2 lessons), c1 (1 lesson).
ExampleLayout == << [exists |-> TRUE, n |-> 2], [exists |-> TRUE, n |-> 1] >>

\* course.yaml: readable and complete ("ok"), missing or unparsable
\* ("unreadable"), without `chapters` ("nochapters"), without `name`.
CourseKinds == {"ok", "unreadable", "nochapters", "noname"}

CourseDir(c, kind, layout, shape) ==
    [uuid |-> <<"uuid", c>>,
     kind |-> kind,
     name |-> IF kind = "noname" THEN NULL ELSE <<"course", c>>,
     description |-> <<"description", c>>,
     tags |-> <<"tags", c>>,
     authors |-> <<"authors", c>>,
     chapters |-> [h \in DOMAIN layout |-> ChapterName(h)],
     dirs |-> [s \in {PathSafe(ChapterName(h)) : h \in {x \in DOMAIN layout : layout[x].exists}} |->
                 LET h == CHOOSE x \in DOMAIN layout : PathSafe(ChapterName(x)) = s
                 IN  [n \in 1..layout[h].n |-> LessonDir(c, h, n, shape)]]]

\* Three families of trees: one course over every chapter layout; several
\* courses of every kind over the example layout; one lesson of every shape.
LayoutTrees == {<< CourseDir(1, "ok", layout, PlainLesson) >> : layout \in ChapterLayouts}
KindTrees ==
    UNION {{[c \in 1..m |-> CourseDir(c, kinds[c], ExampleLayout, PlainLesson)] :
              kinds \in [1..m -> CourseKinds]} : m \in 1..MaxCourses}
ShapeTrees ==
    {<< CourseDir(1, "ok", << [exists |-> TRUE, n |-> 1] >>, shape) >> :
        shape \in LessonShapes}
Trees == LayoutTrees \cup KindTrees \cup ShapeTrees

\* ------------------------------------------------------------ the state
VARIABLES
    fs,             \* the content tree under process.cwd(), in glob order
    finished,       \* what each earlier run of the script left in the tables
    db,             \* the five tables: table name -> set of rows
    blobs,          \* blob storage: Key -> content
    nextId,         \* the store's generator of row identifiers
    ops,            \* every operation main() has issued, in order
    pc,             \* where main() is
    purgeIx,        \* how many purge deletes were issued
    faults,         \* how many purge deletes failed
    courseIx, chapterIx, lessonIx, taskIx, condIx,   \* loop positions (from 0)
    navI, navJ,     \* the navigation loops' i and j
    chapterMetadataData, lessonMetadataData, taskMetadataData,  \* returned ids
    guideUploadData, workspaceUploadData,   \* returned Keys
    conditionValue, \* condition.value, once stat() has looked at it
    navChapters, navLessons, previous

position == <<pc, courseIx, chapterIx, lessonIx, taskIx, condIx, navI, navJ>>
store == <<db, blobs, nextId>>
locals == <<chapterMetadataData, lessonMetadataData, taskMetadataData,
            guideUploadData, workspaceUploadData, conditionValue,
            navChapters, navLessons, previous>>
vars == <<fs, finished, store, ops, purgeIx, faults, position, locals>>

Tables == {"task_conditions", "tasks", "lessons", "chapters", "courses"}

PurgeWithoutChapters == <<"task_conditions", "tasks", "lessons", "courses">>

PurgeParentsFirst == <<"courses", "chapters", "lessons", "tasks", "task_conditions">>

\* The deletes of the purge, in the order main() issues them.
PurgeOrder == <<"task_conditions", "tasks", "lessons", "chapters", "courses">>

Op(op, on, ok, ref) == [op |-> op, on |-> on, ok |-> ok, ref |-> ref]

\* upload(name, ...) into a bucket returns { Key: bucket/name }.
Key(bucket, name) == <<bucket, name>>
GuideName(id) == <<"guide", id, "md">>
WorkspaceName(id) == <<"workspace", id, "tar">>
FileNameWithoutLesson(id, value) == <<"file", 0, PathSafe(Last(value))>>
FileName(id, value) == <<"file", id, PathSafe(Last(value))>>

Put(key, content) ==
    [x \in DOMAIN blobs \cup {key} |-> IF x = key THEN content ELSE blobs[x]]

\* What an earlier run over a one-lesson tree of course 1 left behind.
OldRows ==
    [t \in Tables |->
        CASE t = "courses" -> {[id |-> <<"uuid", 1>>, name |-> <<"course", 1>>,
                              description |-> <<"description", 1>>,
                              tags |-> <<"tags", 1>>, authors |-> <<"authors", 1>>]}
          [] t = "chapters" ->
               {[id |-> 1, course |-> <<"uuid", 1>>, name |-> ChapterName(1), index |-> 0]}
          [] t = "lessons" ->
               {[id |-> 2, chapter |-> 1, name |-> <<"lesson", 1, 1, 1>>,
                 environment |-> <<"env">>, index |-> 0,
                 guide |-> Key("guides", GuideName(2)), workspace |-> NULL,
                 previous |-> NULL, next |-> NULL]}
          [] t = "tasks" ->
               {[id |-> 3, lesson |-> 2, instructions |-> <<"instructions", 0>>,
                 index |-> 0, completed_by_default |-> FALSE]}
          [] t = "task_conditions" ->
               {[id |-> 4, task |-> 3, type |-> <<"type">>, in |-> <<"in">>,
                 is |-> <<"is">>, value |-> Folder]}]
OldBlobs == [x \in {Key("guides", GuideName(2))} |-> <<"body", 1, 1, 1>>]
OldIds == {1, 2, 3, 4}

Fresh ==
    /\ finished = <<>>
    /\ db = OldRows
    /\ blobs = OldBlobs
    /\ nextId = 5
    /\ ops = <<>>
    /\ pc = "purge"
    /\ purgeIx = 0
    /\ faults = 0
    /\ courseIx = 0 /\ chapterIx = 0 /\ lessonIx = 0 /\ taskIx = 0 /\ condIx = 0
    /\ navI = 0 /\ navJ = 0
    /\ chapterMetadataData = 0 /\ lessonMetadataData = 0 /\ taskMetadataData = 0
    /\ guideUploadData = NULL /\ workspaceUploadData = NULL
    /\ conditionValue = NULL
    /\ navChapters = <<>> /\ navLessons = <<>> /\ previous = NULL

Init == fs \in Trees /\ Fresh

\* ------------------------------------------------- what main() is looking at
course == fs[courseIx + 1]

ChaptersCountedFromOne(c) ==
    [h \in DOMAIN c.chapters |->
        [name |-> c.chapters[h], pathSafe |-> PathSafe(c.chapters[h]), index |-> h]]

\* courseMetadata.chapters.map(...).sort(...): name, pathSafe, index.
ChaptersOf(c) ==
    [h \in DOMAIN c.chapters |->
        [name |-> c.chapters[h], pathSafe |-> PathSafe(c.chapters[h]), index |-> h - 1]]
chapters == ChaptersOf(course)
chapter == chapters[chapterIx + 1]

\* asyncGlob(`${course}/${chapter.pathSafe}/!(node_modules|.git)/`)
GlobLessonDirs(c, ch) ==
    IF ch.pathSafe \in DOMAIN c.dirs THEN c.dirs[ch.pathSafe] ELSE <<>>
lessons == GlobLessonDirs(course, chapter)
lesson == lessons[lessonIx + 1]

\* lessonMetadata?.tasks?.length || 0
TaskCount(l) == IF l.hasTasks THEN Len(l.tasks) ELSE 0
task == lesson.tasks[taskIx + 1]
condition == task.conditions[condIx + 1]

\* ------------------------------------------------------ the loops' headers
At(p, c, h, l, t, k, i, j) ==
    [pc |-> p, courseIx |-> c, chapterIx |-> h, lessonIx |-> l, taskIx |-> t,
     condIx |-> k, navI |-> i, navJ |-> j]

Goto(at) ==
    /\ pc' = at.pc
    /\ courseIx' = at.courseIx /\ chapterIx' = at.chapterIx
    /\ lessonIx' = at.lessonIx /\ taskIx' = at.taskIx /\ condIx' = at.condIx
    /\ navI' = at.navI /\ navJ' = at.navJ

Stay(p) == At(p, courseIx, chapterIx, lessonIx, taskIx, condIx, navI, navJ)

\* return after an error was logged; an exception nobody catches
Return == At("returned", courseIx, chapterIx, lessonIx, taskIx, condIx, navI, navJ)
Throw == At("thrown", courseIx, chapterIx, lessonIx, taskIx, condIx, navI, navJ)

\* the course loop starting over once past the last course
CourseLoopAgain(c) ==
    IF c < Len(fs) THEN At("readCourse", c, 0, 0, 0, 0, 0, 0)
    ELSE IF Len(fs) > 0 THEN At("readCourse", 0, 0, 0, 0, 0, 0, 0)
    ELSE At("done", c, 0, 0, 0, 0, 0, 0)

\* for (const course of courses)
CourseLoop(c) ==
    IF c < Len(fs) THEN At("readCourse", c, 0, 0, 0, 0, 0, 0)
    ELSE At("done", c, 0, 0, 0, 0, 0, 0)

\* for (let i = 0; i < chapters.length; i++)  -- the navigation pass
NavLoop(i) ==
    IF i < Len(chapters) THEN At("navSelectChapters", courseIx, 0, 0, 0, 0, i, 0)
    ELSE CourseLoop(courseIx + 1)

\* for (let j = 0; j < lessons.length; j++)  -- within the navigation pass
NavLessonLoop(j, found) ==
    IF j < Len(found)
    THEN At(IF j = 0 /\ navI > 0 THEN "navSelectPrevious" ELSE "navUpdate",
            courseIx, 0, 0, 0, 0, navI, j)
    ELSE NavLoop(navI + 1)

\* for (const chapter of chapters)
ChapterLoop(h) ==
    IF h < Len(chapters) THEN At("upsertChapter", courseIx, h, 0, 0, 0, 0, 0)
    ELSE NavLoop(0)

LessonLoopThenLink(l) ==
    IF l < Len(lessons) THEN At("readGuide", courseIx, chapterIx, l, 0, 0, 0, 0)
    ELSE NavLoop(0)

\* for (let i = 0; i < lessons.length; i++)
LessonLoop(l) ==
    IF l < Len(lessons) THEN At("readGuide", courseIx, chapterIx, l, 0, 0, 0, 0)
    ELSE ChapterLoop(chapterIx + 1)

\* for (let j = 0; j < lessonMetadata.tasks.length; j++)
TaskLoopUnguarded(t) ==
    IF ~lesson.hasTasks THEN Throw
    ELSE IF t < Len(lesson.tasks)
         THEN At("upsertTask", courseIx, chapterIx, lessonIx, t, 0, 0, 0)
         ELSE LessonLoop(lessonIx + 1)

\* for (let j = 0; j < lessonMetadata?.tasks?.length || 0; j++)
TaskLoop(t) ==
    IF t < TaskCount(lesson) THEN At("upsertTask", courseIx, chapterIx, lessonIx, t, 0, 0, 0)
    ELSE LessonLoop(lessonIx + 1)

\* for (let k = 0; k < lessonMetadata.tasks[j].conditions.length; k++)
ConditionLoop(k) ==
    IF k < Len(task.conditions)
    THEN At("stat", courseIx, chapterIx, lessonIx, taskIx, k, 0, 0)
    ELSE TaskLoop(taskIx + 1)

\* ------------------------------------------------------------ the store
\* upsert of a row that carries its primary key: replaces the row of that id.
UpsertById(rows, row) == {r \in rows : r.id # row.id} \cup {row}
\* upsert of a row without id: the store generates one.
Insert(rows, row) == rows \cup {row}
\* update(fields).eq("id", id)
UpdateGuide(rows, id, key) ==
    {IF r.id = id THEN [r EXCEPT !.guide = key] ELSE r : r \in rows}
UpdateWorkspace(rows, id, key) ==
    {IF r.id = id THEN [r EXCEPT !.workspace = key] ELSE r : r \in rows}
UpdateNavigation(rows, id, prev, next) ==
    {IF r.id = id THEN [r EXCEPT !.previous = prev, !.next = next] ELSE r : r \in rows}

\* select().eq(...).order("index", {ascending: true}): every order the store
\* may return for rows of equal index.
OrderByIndex(rows) ==
    {s \in [1..Cardinality(rows) -> rows] :
        /\ \A a, b \in DOMAIN s : a # b => s[a] # s[b]
        /\ \A a, b \in DOMAIN s : a < b => s[a].index <= s[b].index}

Log(op, on, ok, ref) == ops' = Append(ops, Op(op, on, ok, ref))

\* ---------------------------------------------------------------- Step 0
\* await supabase.from(t).delete().neq("id", badUUID): the result is dropped,
\* so main() goes on to the next statement whether the delete worked or not.
AfterDelete(ok) == IF purgeIx + 1 < Len(PurgeOrder) THEN Stay("purge") ELSE Stay("glob")

\* The deletes issued without waiting for them: main() goes on after the
\* first, and the others settle whenever.
PurgeDeleteDetached ==
    /\ purgeIx < Len(PurgeOrder)
    /\ pc # "purge" \/ purgeIx = 0
    /\ \E ok \in BOOLEAN :
        /\ ok \/ faults < MaxPurgeFaults
        /\ db' = IF ok THEN [db EXCEPT ![PurgeOrder[purgeIx + 1]] = {}] ELSE db
        /\ faults' = IF ok THEN faults ELSE faults + 1
        /\ Log("delete", PurgeOrder[purgeIx + 1], ok, NULL)
        /\ Goto(IF pc = "purge" THEN Stay("glob") ELSE Stay(pc))
    /\ purgeIx' = purgeIx + 1
    /\ UNCHANGED <<fs, finished, blobs, nextId, locals>>

\* A purge that empties the buckets along with the lessons table.
PurgeDeleteWithBlobs ==
    /\ pc = "purge"
    /\ \E ok \in BOOLEAN :
        /\ ok \/ faults < MaxPurgeFaults
        /\ db' = IF ok THEN [db EXCEPT ![PurgeOrder[purgeIx + 1]] = {}] ELSE db
        /\ blobs' = IF ok /\ PurgeOrder[purgeIx + 1] = "lessons"
                    THEN [x \in {} |-> NULL] ELSE blobs
        /\ faults' = IF ok THEN faults ELSE faults + 1
        /\ Log("delete", PurgeOrder[purgeIx + 1], ok, NULL)
        /\ Goto(AfterDelete(ok))
    /\ purgeIx' = purgeIx + 1
    /\ UNCHANGED <<fs, finished, nextId, locals>>

PurgeDelete ==
    /\ pc = "purge"
    /\ \E ok \in BOOLEAN :
        /\ ok \/ faults < MaxPurgeFaults
        /\ db' = IF ok THEN [db EXCEPT ![PurgeOrder[purgeIx + 1]] = {}] ELSE db
        /\ faults' = IF ok THEN faults ELSE faults + 1
        /\ Log("delete", PurgeOrder[purgeIx + 1], ok, NULL)
        /\ Goto(AfterDelete(ok))
    /\ purgeIx' = purgeIx + 1
    /\ UNCHANGED <<fs, finished, blobs, nextId, locals>>

\* const courses = await asyncGlob(`${baseDir}/!(node_modules|.git)/`)
GlobCourses ==
    /\ pc = "glob"
    /\ Log("glob", "baseDir", TRUE, NULL)
    /\ Goto(CourseLoop(0))
    /\ UNCHANGED <<fs, finished, store, purgeIx, faults, locals>>

\* ---------------------------------------------------------------- Step 1
\* YAML.parse(await readFile(path.join(course, "course.yaml"), "utf8"))
ReadCourse ==
    /\ pc = "readCourse"
    /\ Log("readFile", "course.yaml", course.kind # "unreadable", course.uuid)
    /\ Goto(IF course.kind = "unreadable" THEN Throw ELSE Stay("upsertCourse"))
    /\ UNCHANGED <<fs, finished, store, purgeIx, faults, locals>>

\* After the course row is in: courseMetadata.chapters.map(...) throws a
\* TypeError when the descriptor has no `chapters`.
AfterCourseUpsert == IF course.kind = "nochapters" THEN Throw ELSE ChapterLoop(0)

UpsertCourse ==
    /\ pc = "upsertCourse"
    /\ \E ok \in BOOLEAN :
        /\ Log("upsert", "courses", ok, course.uuid)
        /\ IF ok
           THEN /\ db' = [db EXCEPT !["courses"] =
                            UpsertById(@, [id |-> course.uuid, name |-> course.name,
                                           description |-> course.description,
                                           tags |-> course.tags,
                                           authors |-> course.authors])]
                /\ Goto(AfterCourseUpsert)
           ELSE /\ db' = db
                /\ Goto(Return)
    /\ UNCHANGED <<fs, finished, blobs, nextId, purgeIx, faults, locals>>

\* ---------------------------------------------------------------- Step 2
ChapterRow(id) ==
    [id |-> id, course |-> course.uuid, name |-> chapter.name, index |-> chapter.index]

UpsertChapter ==
    /\ pc = "upsertChapter"
    /\ \E ok \in BOOLEAN :
        /\ Log("upsert", "chapters", ok, <<nextId>>)
        /\ IF ok
           THEN /\ db' = [db EXCEPT !["chapters"] = Insert(@, ChapterRow(nextId))]
                /\ nextId' = nextId + 1
                /\ chapterMetadataData' = nextId
                /\ Goto(Stay("globLessons"))
           ELSE /\ UNCHANGED <<db, nextId, chapterMetadataData>>
                /\ Goto(Return)
    /\ UNCHANGED <<fs, finished, blobs, purgeIx, faults, lessonMetadataData, taskMetadataData,
                   guideUploadData, workspaceUploadData, conditionValue,
                   navChapters, navLessons, previous>>

GlobLessons ==
    /\ pc = "globLessons"
    /\ Log("glob", "chapter", TRUE, chapter.pathSafe)
    /\ Goto(LessonLoop(0))
    /\ UNCHANGED <<fs, finished, store, purgeIx, faults, locals>>

\* ---------------------------------------------------------------- Step 3
\* fm(await readFile(path.join(lesson, "guide.md"), "utf8"))
ReadGuide ==
    /\ pc = "readGuide"
    /\ Log("readFile", "guide.md", lesson.guide # "missing", lesson.path)
    /\ Goto(IF lesson.guide = "missing" THEN Throw ELSE Stay("upsertLesson"))
    /\ UNCHANGED <<fs, finished, store, purgeIx, faults, locals>>

LessonRowWithoutIndex(id) ==
    [id |-> id, chapter |-> chapterMetadataData, name |-> lesson.name,
     environment |-> lesson.environment, index |-> 0,
     guide |-> NULL, workspace |-> NULL, previous |-> NULL, next |-> NULL]

LessonRow(id) ==
    [id |-> id, chapter |-> chapterMetadataData, name |-> lesson.name,
     environment |-> lesson.environment, index |-> lessonIx,
     guide |-> NULL, workspace |-> NULL, previous |-> NULL, next |-> NULL]

UpsertLesson ==
    /\ pc = "upsertLesson"
    /\ \E ok \in BOOLEAN :
        /\ Log("upsert", "lessons", ok, <<nextId>>)
        /\ IF ok
           THEN /\ db' = [db EXCEPT !["lessons"] = Insert(@, LessonRow(nextId))]
                /\ nextId' = nextId + 1
                /\ lessonMetadataData' = nextId
                /\ Goto(Stay("uploadGuide"))
           ELSE /\ UNCHANGED <<db, nextId, lessonMetadataData>>
                /\ Goto(Return)
    /\ UNCHANGED <<fs, finished, blobs, purgeIx, faults, chapterMetadataData, taskMetadataData,
                   guideUploadData, workspaceUploadData, conditionValue,
                   navChapters, navLessons, previous>>

UploadGuide ==
    /\ pc = "uploadGuide"
    /\ \E ok \in BOOLEAN :
        LET key == Key("guides", GuideName(lessonMetadataData)) IN
        /\ Log("upload", "guides", ok, key)
        /\ IF ok
           THEN /\ blobs' = Put(key, lesson.body)
                /\ guideUploadData' = key
                /\ Goto(Stay("existsSync"))
           ELSE /\ UNCHANGED <<blobs, guideUploadData>>
                /\ Goto(Return)
    /\ UNCHANGED <<fs, finished, db, nextId, purgeIx, faults, chapterMetadataData,
                   lessonMetadataData, taskMetadataData, workspaceUploadData,
                   conditionValue, navChapters, navLessons, previous>>

\* Without the guard, as in src/sync.js:129-136: readdir of a missing
\* workspace/ throws.
AfterExistsUnguarded(found) == IF found THEN Stay("tar") ELSE Throw

\* if (existsSync(path.join(lesson, "/workspace/"))) { ... }
AfterExists(found) == IF found THEN Stay("tar") ELSE Stay("updateGuide")

ExistsWorkspace ==
    /\ pc = "existsSync"
    /\ Log("existsSync", "workspace", TRUE, lesson.path)
    /\ Goto(AfterExists(lesson.workspace))
    /\ UNCHANGED <<fs, finished, store, purgeIx, faults, locals>>

\* tar.create({...}, await readdir(path.join(lesson, "/workspace/")))
PackWorkspace ==
    /\ pc = "tar"
    /\ Log("tar", "workspace", TRUE, lesson.path)
    /\ Goto(Stay("uploadWorkspace"))
    /\ UNCHANGED <<fs, finished, store, purgeIx, faults, locals>>

UploadWorkspace ==
    /\ pc = "uploadWorkspace"
    /\ \E ok \in BOOLEAN :
        LET key == Key("starter-workspaces", WorkspaceName(lessonMetadataData)) IN
        /\ Log("upload", "starter-workspaces", ok, key)
        /\ IF ok
           THEN /\ blobs' = Put(key, <<"tar", lesson.path>>)
                /\ workspaceUploadData' = key
                /\ Goto(Stay("updateWorkspace"))
           ELSE /\ UNCHANGED <<blobs, workspaceUploadData>>
                /\ Goto(Return)
    /\ UNCHANGED <<fs, finished, db, nextId, purgeIx, faults, chapterMetadataData,
                   lessonMetadataData, taskMetadataData, guideUploadData,
                   conditionValue, navChapters, navLessons, previous>>

UpdateLessonWorkspace ==
    /\ pc = "updateWorkspace"
    /\ \E ok \in BOOLEAN :
        /\ Log("update", "lessons", ok, <<lessonMetadataData>>)
        /\ IF ok
           THEN /\ db' = [db EXCEPT !["lessons"] =
                            UpdateWorkspace(@, lessonMetadataData, workspaceUploadData)]
                /\ Goto(Stay("updateGuide"))
           ELSE /\ db' = db
                /\ Goto(Return)
    /\ UNCHANGED <<fs, finished, blobs, nextId, purgeIx, faults, locals>>

\* The same write-back with the `return` of its error branch left out.
UpdateLessonGuideUnchecked ==
    /\ pc = "updateGuide"
    /\ \E ok \in BOOLEAN :
        /\ Log("update", "lessons", ok, <<lessonMetadataData>>)
        /\ db' = IF ok THEN [db EXCEPT !["lessons"] =
                               UpdateGuide(@, lessonMetadataData, guideUploadData)]
                 ELSE db
        /\ Goto(TaskLoop(0))
    /\ UNCHANGED <<fs, finished, blobs, nextId, purgeIx, faults, locals>>

UpdateLessonGuide ==
    /\ pc = "updateGuide"
    /\ \E ok \in BOOLEAN :
        /\ Log("update", "lessons", ok, <<lessonMetadataData>>)
        /\ IF ok
           THEN /\ db' = [db EXCEPT !["lessons"] =
                            UpdateGuide(@, lessonMetadataData, guideUploadData)]
                /\ Goto(TaskLoop(0))
           ELSE /\ db' = db
                /\ Goto(Return)
    /\ UNCHANGED <<fs, finished, blobs, nextId, purgeIx, faults, locals>>

\* ---------------------------------------------------------------- Step 4
TaskRowOfChapter(id) ==
    [id |-> id, lesson |-> chapterMetadataData, instructions |-> task.instructions,
     index |-> taskIx, completed_by_default |-> task.completed_by_default]

TaskRow(id) ==
    [id |-> id, lesson |-> lessonMetadataData, instructions |-> task.instructions,
     index |-> taskIx, completed_by_default |-> task.completed_by_default]

UpsertTask ==
    /\ pc = "upsertTask"
    /\ \E ok \in BOOLEAN :
        /\ Log("upsert", "tasks", ok, <<nextId>>)
        /\ IF ok
           THEN /\ db' = [db EXCEPT !["tasks"] = Insert(@, TaskRow(nextId))]
                /\ nextId' = nextId + 1
                /\ taskMetadataData' = nextId
                /\ Goto(ConditionLoop(0))
           ELSE /\ UNCHANGED <<db, nextId, taskMetadataData>>
                /\ Goto(Return)
    /\ UNCHANGED <<fs, finished, blobs, purgeIx, faults, chapterMetadataData, lessonMetadataData,
                   guideUploadData, workspaceUploadData, conditionValue,
                   navChapters, navLessons, previous>>

\* ---------------------------------------------------------------- Step 5
\* (await stat(path.join(lesson, condition.value))).isFile(): stat rejects
\* with ENOENT when nothing is at that path.
AfterStat(value) ==
    IF value \in RegularFiles THEN Stay("uploadFile")
    ELSE IF value \in Directories THEN Stay("upsertCondition")
    ELSE Throw

StatCondition ==
    /\ pc = "stat"
    /\ Log("stat", "lesson", condition.value \in RegularFiles \cup Directories,
           condition.value)
    /\ conditionValue' = condition.value
    /\ Goto(AfterStat(condition.value))
    /\ UNCHANGED <<fs, finished, store, purgeIx, faults, chapterMetadataData, lessonMetadataData,
                   taskMetadataData, guideUploadData, workspaceUploadData,
                   navChapters, navLessons, previous>>

UploadedValueDropped(key) == condition.value

\* lessonMetadata.tasks[j].conditions[k].value = fileUploadData.Key; `condition`
\* is that same object, so the row below carries the Key.
UploadedValue(key) == key

UploadFile ==
    /\ pc = "uploadFile"
    /\ \E ok \in BOOLEAN :
        LET key == Key("misc-course-content",
                       FileName(lessonMetadataData, condition.value)) IN
        /\ Log("upload", "misc-course-content", ok, key)
        /\ IF ok
           THEN /\ blobs' = Put(key, <<"bytes", lesson.path, condition.value>>)
                /\ conditionValue' = UploadedValue(key)
                /\ Goto(Stay("upsertCondition"))
           ELSE /\ UNCHANGED <<blobs, conditionValue>>
                /\ Goto(Return)
    /\ UNCHANGED <<fs, finished, db, nextId, purgeIx, faults, chapterMetadataData,
                   lessonMetadataData, taskMetadataData, guideUploadData,
                   workspaceUploadData, navChapters, navLessons, previous>>

ConditionRow(id) ==
    [id |-> id, task |-> taskMetadataData, type |-> condition.type,
     in |-> condition.in, is |-> condition.is, value |-> conditionValue]

UpsertCondition ==
    /\ pc = "upsertCondition"
    /\ \E ok \in BOOLEAN :
        /\ Log("upsert", "task_conditions", ok, <<nextId>>)
        /\ IF ok
           THEN /\ db' = [db EXCEPT !["task_conditions"] = Insert(@, ConditionRow(nextId))]
                /\ nextId' = nextId + 1
                /\ Goto(ConditionLoop(condIx + 1))
           ELSE /\ UNCHANGED <<db, nextId>>
                /\ Goto(Return)
    /\ UNCHANGED <<fs, finished, blobs, purgeIx, faults, locals>>

\* ------------------------------------------------------ navigation pass
\* supabase.from("chapters").select().eq("course", uuid).order("index")
NavSelectChapters ==
    /\ pc = "navSelectChapters"
    /\ \E ok \in BOOLEAN :
        /\ Log("select", "chapters", ok, course.uuid)
        /\ IF ok
           THEN /\ navChapters' \in
                      OrderByIndex({r \in db["chapters"] : r.course = course.uuid})
                /\ Goto(Stay("navSelectLessons"))
           ELSE /\ navChapters' = navChapters
                /\ Goto(Return)
    /\ UNCHANGED <<fs, finished, store, purgeIx, faults, chapterMetadataData, lessonMetadataData,
                   taskMetadataData, guideUploadData, workspaceUploadData,
                   conditionValue, navLessons, previous>>

\* supabase.from("lessons").select().eq("chapter", chapters[i].id).order("index")
NavSelectLessons ==
    /\ pc = "navSelectLessons"
    /\ \E ok \in BOOLEAN :
        /\ Log("select", "lessons", ok, <<navChapters[navI + 1].id>>)
        /\ IF ok
           THEN \E found \in OrderByIndex({r \in db["lessons"] :
                                             r.chapter = navChapters[navI + 1].id}) :
                    /\ navLessons' = found
                    /\ Goto(NavLessonLoop(0, found))
           ELSE /\ navLessons' = navLessons
                /\ Goto(Return)
    /\ UNCHANGED <<fs, finished, store, purgeIx, faults, chapterMetadataData, lessonMetadataData,
                   taskMetadataData, guideUploadData, workspaceUploadData,
                   conditionValue, navChapters, previous>>

\* `${uuid}/${i - 1}/${previousChapterLessons.length - 1}`
LastOfChapter(uuid, i, count) == <<uuid, i, count - 1>>

\* ...select().eq("chapter", chapters[i - 1].id).order("index")
NavSelectPrevious ==
    /\ pc = "navSelectPrevious"
    /\ \E ok \in BOOLEAN :
        /\ Log("select", "lessons", ok, <<navChapters[navI].id>>)
        /\ IF ok
           THEN /\ previous' = LastOfChapter(course.uuid, navI - 1,
                        Cardinality({r \in db["lessons"] : r.chapter = navChapters[navI].id}))
                /\ Goto(Stay("navUpdate"))
           ELSE /\ previous' = previous
                /\ Goto(Return)
    /\ UNCHANGED <<fs, finished, store, purgeIx, faults, chapterMetadataData, lessonMetadataData,
                   taskMetadataData, guideUploadData, workspaceUploadData,
                   conditionValue, navChapters, navLessons>>

\* let previous = ... (lines 266-282)
NavPrevious(uuid, i, j, looked) ==
    IF j > 0 THEN <<uuid, i, j - 1>>
    ELSE IF i > 0 THEN looked
    ELSE NULL

\* let next = ... (lines 286-293)
NavNext(uuid, i, j, nLessons, nChapters) ==
    IF j < nLessons - 1 THEN <<uuid, i, j + 1>>
    ELSE IF i < nChapters - 1 THEN <<uuid, i + 1, 0>>
    ELSE NULL

\* supabase.from("lessons").update({ previous, next }).eq("id", lessons[j].id)
NavUpdate ==
    /\ pc = "navUpdate"
    /\ \E ok \in BOOLEAN :
        /\ Log("update", "lessons", ok, <<navLessons[navJ + 1].id>>)
        /\ IF ok
           THEN /\ db' = [db EXCEPT !["lessons"] =
                            UpdateNavigation(@, navLessons[navJ + 1].id,
                                NavPrevious(course.uuid, navI, navJ, previous),
                                NavNext(course.uuid, navI, navJ,
                                        Len(navLessons), Len(navChapters)))]
                /\ Goto(NavLessonLoop(navJ + 1, navLessons))
           ELSE /\ db' = db
                /\ Goto(Return)
    /\ UNCHANGED <<fs, finished, blobs, nextId, purgeIx, faults, locals>>

\* ------------------------------------------------------------------ runs
Next ==
    \/ PurgeDelete
    \/ GlobCourses
    \/ ReadCourse
    \/ UpsertCourse
    \/ UpsertChapter
    \/ GlobLessons
    \/ ReadGuide
    \/ UpsertLesson
    \/ UploadGuide
    \/ ExistsWorkspace
    \/ PackWorkspace
    \/ UploadWorkspace
    \/ UpdateLessonWorkspace
    \/ UpdateLessonGuide
    \/ UpsertTask
    \/ StatCondition
    \/ UploadFile
    \/ UpsertCondition
    \/ NavSelectChapters
    \/ NavSelectLessons
    \/ NavSelectPrevious
    \/ NavUpdate

Spec == Init /\ [][Next]_vars

\* The script's process is scheduled until main() has settled.
FairSpec == Spec /\ WF_vars(Next)

\* ------------------------------------------------------ running it again
MaxRuns == 2

Ended == pc \in {"done", "returned", "thrown"}

\* main() is called with no handler on its promise: the process ends with
\* code 0 when the promise resolves -- at the end of main() or at a `return`
\* after a logged error -- and with code 1 when it rejects.
ExitCode(p) ==
    CASE p \in {"done", "returned"} -> 0
      [] p = "thrown" -> 1

\* The run reached the end of main() and no operation it issued failed.
RunSucceeded == pc = "done" /\ \A n \in DOMAIN ops : ops[n].ok

\* The script is started again, once the run before it has completed, over
\* the same tree and the same store: a new process, whose main() starts from
\* its first line.
Rerun ==
    /\ pc = "done"
    /\ Len(finished) + 1 < MaxRuns
    /\ finished' = Append(finished, [db |-> db, blobs |-> blobs, ok |-> RunSucceeded])
    /\ ops' = <<>>
    /\ purgeIx' = 0
    /\ Goto(At("purge", 0, 0, 0, 0, 0, 0, 0))
    /\ chapterMetadataData' = 0 /\ lessonMetadataData' = 0 /\ taskMetadataData' = 0
    /\ guideUploadData' = NULL /\ workspaceUploadData' = NULL
    /\ conditionValue' = NULL
    /\ navChapters' = <<>> /\ navLessons' = <<>> /\ previous' = NULL
    /\ UNCHANGED <<fs, store, faults>>

\* A lesson with a workspace and one task whose conditions name a file and
\* a folder.
RichLesson ==
    [guide |-> "ok", workspace |-> TRUE, hasTasks |-> TRUE,
     tasks |-> << <<FileA, Folder>> >>]

\* Trees for repeated runs: the example layout, of plain and of rich lessons.
RepeatTrees ==
    {<< CourseDir(1, "ok", ExampleLayout, shape) >> : shape \in {PlainLesson, RichLesson}}

InitTwice == fs \in RepeatTrees /\ Fresh

NextTwice == Next \/ Rerun

SpecTwice == InitTwice /\ [][NextTwice]_vars

\* ---------------------------------------------------- any chapter name
MaxNameLen == 3

NameAlphabet == {"a", "B", "1", " ", "_"}

\* course.yaml declaring one chapter of any name over the alphabet; next to
\* them the trees of rich lessons, which take main() through every statement.
NameTrees ==
    {<< [CourseDir(1, "ok", << [exists |-> FALSE, n |-> 0] >>, PlainLesson)
            EXCEPT !.chapters = << name >>, !.dirs = << >>] >> :
        name \in UNION {[1..m -> NameAlphabet] : m \in 1..MaxNameLen}}

\* course.yaml declaring two chapters whose names give one slug, over the
\* one directory of that slug.
CollidingNames == << <<"A", " ", "1">>, <<"a", "_", "1">> >>
CollidingTrees ==
    {<< [CourseDir(1, "ok", << [exists |-> FALSE, n |-> 0] >>, PlainLesson)
            EXCEPT !.chapters = CollidingNames,
                   !.dirs = [s \in {PathSafe(CollidingNames[1])} |->
                                [n \in 1..k |-> LessonDir(1, 1, n, PlainLesson)]]] >> :
        k \in 1..MaxLessons}

InitNames == fs \in NameTrees \cup CollidingTrees \cup RepeatTrees /\ Fresh

SpecNames == InitNames /\ [][Next]_vars

\* ================================================================ claims
NewRows(t) == {r \in db[t] : r.id \notin OldIds}

ChapterRowsOf(c) == {r \in db["chapters"] : r.course = c.uuid}

\* C1: after a successful run, a course that declares N chapters has exactly
\* N Chapter rows, their indices are exactly 0..N-1, and the row of index i
\* carries the i-th declared name.
ChaptersMatchDeclaredOrder ==
    RunSucceeded =>
        \A c \in DOMAIN fs :
            LET rows == ChapterRowsOf(fs[c])
                N == Len(fs[c].chapters)
            IN  /\ Cardinality(rows) = N
                /\ {r.index : r \in rows} = 0..(N - 1)
                /\ \A r \in rows : r.index \in 0..(N - 1) /\ r.name = fs[c].chapters[r.index + 1]

TwoCoursesOfTwoChapters ==
    /\ RunSucceeded
    /\ Len(fs) = 2
    /\ \A c \in DOMAIN fs : Cardinality(ChapterRowsOf(fs[c])) = 2

\* C2: after a successful run, a chapter whose directory yields M lesson
\* directories has exactly M Lesson rows under its generated identifier, of
\* indices 0..M-1, the row of index i built from the i-th directory (its
\* name, environment and guide body).
LessonsMatchDiscoveredOrder ==
    RunSucceeded =>
        \A c \in DOMAIN fs : \A ch \in ChapterRowsOf(fs[c]) :
            LET found == GlobLessonDirs(fs[c], ChaptersOf(fs[c])[ch.index + 1])
                rows == {l \in db["lessons"] : l.chapter = ch.id}
                M == Len(found)
            IN  /\ Cardinality(rows) = M
                /\ {l.index : l \in rows} = 0..(M - 1)
                /\ \A l \in rows :
                    /\ l.index \in 0..(M - 1)
                    /\ l.name = found[l.index + 1].name
                    /\ l.environment = found[l.index + 1].environment
                    /\ l.guide \in DOMAIN blobs
                    /\ blobs[l.guide] = found[l.index + 1].body

ChapterOfTwoLessons ==
    /\ RunSucceeded
    /\ \E a, b \in db["lessons"] : a.chapter = b.chapter /\ a.index = 0 /\ b.index = 1

\* ---------------------------------------------------------- navigation
\* The positions (chapter index, lesson index) at which a course has a
\* Lesson row, and their order: chapters by index, then lessons by index.
LessonRowsOf(ch) == {l \in db["lessons"] : l.chapter = ch.id}
LessonPositions(c) ==
    UNION {{<<ch.index, l.index>> : l \in LessonRowsOf(ch)} : ch \in ChapterRowsOf(c)}
Before(p, q) == p[1] < q[1] \/ (p[1] = q[1] /\ p[2] < q[2])
Pointer(c, q) == <<c.uuid, q[1], q[2]>>
Predecessor(c, p) ==
    LET B == {q \in LessonPositions(c) : Before(q, p)}
    IN  IF B = {} THEN NULL
        ELSE Pointer(c, CHOOSE q \in B : \A r \in B : r = q \/ Before(r, q))
Successor(c, p) ==
    LET A == {q \in LessonPositions(c) : Before(p, q)}
    IN  IF A = {} THEN NULL
        ELSE Pointer(c, CHOOSE q \in A : \A r \in A : r = q \/ Before(q, r))

\* C3: after a successful run, every Lesson's previous is its immediate
\* predecessor and its next its immediate successor in the course's global
\* lesson order, across chapter boundaries; previous is null exactly for the
\* first lesson of the course and next exactly for the last.
NavigationFollowsGlobalOrder ==
    RunSucceeded =>
        \A c \in DOMAIN fs : \A ch \in ChapterRowsOf(fs[c]) : \A l \in LessonRowsOf(ch) :
            /\ l.previous = Predecessor(fs[c], <<ch.index, l.index>>)
            /\ l.next = Successor(fs[c], <<ch.index, l.index>>)

\* The same, for the courses in which every declared chapter has a lesson.
EveryChapterHasALesson ==
    \A c \in DOMAIN fs : \A h \in DOMAIN fs[c].chapters :
        Len(GlobLessonDirs(fs[c], ChaptersOf(fs[c])[h])) > 0
NavigationOfFullChapters == EveryChapterHasALesson => NavigationFollowsGlobalOrder

\* ---------------------------------------------------------- conditions
\* C4: a condition whose value names no existing file does not fail the
\* run: right after its stat, main() is about to upsert the Condition row
\* with the declared literal unchanged (and without an upload).
LiteralConditionPersists ==
    (ops # <<>> /\ Last(ops).op = "stat" /\ Last(ops).ref \notin RegularFiles)
        => (pc = "upsertCondition" /\ conditionValue = Last(ops).ref)

\* C5: a condition whose value names an existing regular file is followed
\* by the upload of that file and only then by the upsert of its row, and
\* the row's value is the Key the upload returned, not the declared path.
FileConditionStoresReference ==
    \A n \in DOMAIN ops :
        (ops[n].op = "stat" /\ ops[n].ref \in RegularFiles) =>
            /\ n + 1 <= Len(ops) =>
                 ops[n + 1].op = "upload" /\ ops[n + 1].on = "misc-course-content"
            /\ n + 2 <= Len(ops) =>
                 /\ ops[n + 1].ok
                 /\ ops[n + 2].op = "upsert" /\ ops[n + 2].on = "task_conditions"
                 /\ ops[n + 2].ok =>
                      \E r \in db["task_conditions"] :
                          /\ r.id = ops[n + 2].ref[1]
                          /\ r.value = ops[n + 1].ref
                          /\ r.value \in DOMAIN blobs
                          /\ r.value \notin CondValues

FileConditionStored ==
    \E r \in NewRows("task_conditions") : r.value \in DOMAIN blobs

\* ----------------------------------------------------------- workspace
\* The directory a Lesson row of this run was built from.
DirOfLesson(l) ==
    LET c == CHOOSE x \in DOMAIN fs : \E r \in ChapterRowsOf(fs[x]) : r.id = l.chapter
        ch == CHOOSE r \in ChapterRowsOf(fs[c]) : r.id = l.chapter
    IN  GlobLessonDirs(fs[c], ChaptersOf(fs[c])[ch.index + 1])[l.index + 1]

TaskRowsOf(l) == {t \in db["tasks"] : t.lesson = l.id}
ConditionRowsOf(t) == {k \in db["task_conditions"] : k.task = t.id}

\* C6: a lesson without workspace/ does not fail the run: existsSync is
\* followed by the guide's write-back, no workspace archive is uploaded for
\* it, its workspace reference stays unset, and once its tasks are reached
\* its guide reference is the uploaded guide's Key; in a successful run all
\* its tasks and conditions have rows.
WorkspaceIsOptional ==
    \A l \in NewRows("lessons") :
        LET d == DirOfLesson(l) IN
        ~d.workspace =>
            /\ l.workspace = NULL
            /\ Key("starter-workspaces", WorkspaceName(l.id)) \notin DOMAIN blobs
            /\ \A n \in DOMAIN ops :
                   /\ ops[n].op = "tar" => ops[n].ref # d.path
                   /\ ops[n].on = "starter-workspaces" =>
                        ops[n].ref # Key("starter-workspaces", WorkspaceName(l.id))
            /\ (Last(ops).op = "existsSync" /\ Last(ops).ref = d.path)
                   => pc = "updateGuide"
            /\ (RunSucceeded \/ TaskRowsOf(l) # {}) =>
                   /\ l.guide = Key("guides", GuideName(l.id))
                   /\ l.guide \in DOMAIN blobs
            /\ RunSucceeded =>
                   /\ {t.index : t \in TaskRowsOf(l)} = 0..(TaskCount(d) - 1)
                   /\ \A t \in TaskRowsOf(l) :
                        Cardinality(ConditionRowsOf(t)) = Len(d.tasks[t.index + 1].conditions)

LessonWithoutWorkspaceSynced ==
    /\ RunSucceeded
    /\ \E l \in NewRows("lessons") :
        /\ ~DirOfLesson(l).workspace
        /\ \E t \in TaskRowsOf(l) : ConditionRowsOf(t) # {}

\* ---------------------------------------------------------------- purge
\* C7: the first five operations of every run are the deletes of
\* Conditions, Tasks, Lessons, Chapters, Courses in that order, no delete is
\* issued after them, and nothing else is issued before all five.
PurgeComesFirst ==
    /\ \A n \in DOMAIN ops :
        /\ n <= 5 => /\ ops[n].op = "delete"
                     /\ ops[n].on = <<"task_conditions", "tasks", "lessons",
                                      "chapters", "courses">>[n]
        /\ n > 5 => ops[n].op # "delete"
    /\ pc # "purge" => Len(ops) >= 5

PurgedThenRebuilt ==
    /\ pc = "done"
    /\ \E n \in DOMAIN ops : ops[n].op = "upload"

\* C9: a purge delete that returns an error is the last operation of the
\* run.
FailedPurgeHalts ==
    \A n \in DOMAIN ops : (ops[n].op = "delete" /\ ~ops[n].ok) => n = Len(ops)

\* ------------------------------------------------------------ fail-fast
\* C8: an upsert, update, select or upload that returns an error is the
\* last operation of the run, which has returned; and what was written
\* before it is still there.
ErrorEndsRun ==
    \A n \in DOMAIN ops :
        /\ (ops[n].op \in {"upsert", "update", "select", "upload"} /\ ~ops[n].ok)
              => (n = Len(ops) /\ pc = "returned")
        /\ (ops[n].op = "upsert" /\ ops[n].ok) =>
              \E r \in db[ops[n].on] :
                  r.id = IF ops[n].on = "courses" THEN ops[n].ref ELSE ops[n].ref[1]
        /\ (ops[n].op = "upload" /\ ops[n].ok) => ops[n].ref \in DOMAIN blobs

HaltedHalfway ==
    /\ pc = "returned"
    /\ NewRows("lessons") # {}
    /\ Last(ops).op = "upload"

\* C10: once a malformed course descriptor was read, the only operation
\* that may follow is nothing at all for a later course and no Chapter,
\* Lesson, Task or Condition operation for this one.
KindOf(uuid) == fs[CHOOSE c \in DOMAIN fs : fs[c].uuid = uuid].kind

MalformedCourseHalts ==
    \A n \in DOMAIN ops :
        (ops[n].op = "readFile" /\ ops[n].on = "course.yaml" /\ KindOf(ops[n].ref) # "ok")
            => \A m \in DOMAIN ops :
                   m > n => (ops[m].op = "upsert" /\ ops[m].on = "courses"
                             /\ ops[m].ref = ops[n].ref)

\* --------------------------------------------- what does hold near C3/C4/C10
\* A condition whose value is an existing directory is persisted verbatim.
FolderConditionPersists ==
    (ops # <<>> /\ Last(ops).op = "stat" /\ Last(ops).ref \in Directories)
        => (pc = "upsertCondition" /\ conditionValue = Last(ops).ref)

\* A descriptor that cannot be read or has no `chapters` does end the run.
UnusableCourseHalts ==
    \A n \in DOMAIN ops :
        (ops[n].op = "readFile" /\ ops[n].on = "course.yaml"
            /\ KindOf(ops[n].ref) \in {"unreadable", "nochapters"})
            => /\ pc \in {"upsertCourse", "returned", "thrown"}
               /\ \A m \in DOMAIN ops :
                   m > n => (ops[m].op = "upsert" /\ ops[m].on = "courses"
                             /\ ops[m].ref = ops[n].ref)

\* The spec's example, c0 (2 lessons) and c1 (1 lesson), is linked as stated.
ExampleIsLinked ==
    (RunSucceeded /\ Len(fs) = 1 /\ fs[1].kind = "ok"
        /\ Cardinality(db["chapters"]) = 2
        /\ {l.name : l \in db["lessons"]} =
              {<<"lesson", 1, 1, 1>>, <<"lesson", 1, 1, 2>>, <<"lesson", 1, 2, 1>>})
    => {<<r.name, r.previous, r.next>> : r \in db["lessons"]} =
          { << <<"lesson", 1, 1, 1>>, NULL, <<fs[1].uuid, 0, 1>> >>,
            << <<"lesson", 1, 1, 2>>, <<fs[1].uuid, 0, 0>>, <<fs[1].uuid, 1, 0>> >>,
            << <<"lesson", 1, 2, 1>>, <<fs[1].uuid, 0, 1>>, NULL >> }

ExampleSynced ==
    /\ RunSucceeded /\ Len(fs) = 1
    /\ {l.name : l \in db["lessons"]} =
          {<<"lesson", 1, 1, 1>>, <<"lesson", 1, 1, 2>>, <<"lesson", 1, 2, 1>>}

\* ------------------------------------------------- missing directories
\* C11: a run never completes successfully over a course that declares a
\* chapter whose slugified directory does not exist.
MissingChapterNeverSynced ==
    RunSucceeded =>
        \A c \in DOMAIN fs : \A h \in DOMAIN fs[c].chapters :
            PathSafe(fs[c].chapters[h]) \in DOMAIN fs[c].dirs

\* ------------------------------------------------------------ idempotence
\* Where a row sits in the tree, in place of the generated identifiers:
\* <<course uuid, chapter index>>, then the lesson's and the task's index.
ChapterAt(d, r) == <<r.course, r.index>>
LessonAt(d, r) ==
    Append(ChapterAt(d, CHOOSE c \in d["chapters"] : c.id = r.chapter), r.index)
TaskAt(d, r) ==
    Append(LessonAt(d, CHOOSE l \in d["lessons"] : l.id = r.lesson), r.index)
ConditionAt(d, r) == TaskAt(d, CHOOSE t \in d["tasks"] : t.id = r.task)
LessonOfCondition(d, r) ==
    (CHOOSE t \in d["tasks"] : t.id = r.task).lesson

\* The rows of table t without their generated identifiers and foreign keys.
Fields(d, t) ==
    CASE t = "courses" -> d[t]
      [] t = "chapters" -> {[at |-> ChapterAt(d, r), name |-> r.name] : r \in d[t]}
      [] t = "lessons" ->
           {[at |-> LessonAt(d, r), name |-> r.name, environment |-> r.environment,
             guide |-> r.guide, workspace |-> r.workspace,
             previous |-> r.previous, next |-> r.next] : r \in d[t]}
      [] t = "tasks" ->
           {[at |-> TaskAt(d, r), instructions |-> r.instructions,
             completed_by_default |-> r.completed_by_default] : r \in d[t]}
      [] t = "task_conditions" ->
           {[at |-> ConditionAt(d, r), type |-> r.type, in |-> r.in, is |-> r.is,
             value |-> r.value] : r \in d[t]}

BothRunsSucceeded ==
    /\ Len(finished) > 0
    /\ finished[Len(finished)].ok
    /\ RunSucceeded

\* C12 (as claimed): two successful runs in succession over an unchanged
\* tree leave the same number of rows of every kind, with equal values in
\* every field other than the generated identifiers and the foreign keys --
\* Lesson.guide, Lesson.workspace, Lesson.previous/next and Condition.value
\* included.
RerunLeavesSameFields ==
    BothRunsSucceeded =>
        \A t \in Tables :
            /\ Cardinality(db[t]) = Cardinality(finished[Len(finished)].db[t])
            /\ Fields(db, t) = Fields(finished[Len(finished)].db, t)

\* A blob reference without the lesson identifier its name embeds.
Unkeyed(ref, lessonId) ==
    IF ref # NULL /\ ref[1] \in {"guides", "starter-workspaces", "misc-course-content"}
    THEN IF ref[2][2] = lessonId
         THEN <<ref[1], <<ref[2][1], "own lesson", ref[2][3]>>>>
         ELSE <<ref[1], <<ref[2][1], "other lesson", ref[2][3]>>>>
    ELSE ref

FieldsUnkeyed(d, t) ==
    CASE t = "lessons" ->
           {[at |-> LessonAt(d, r), name |-> r.name, environment |-> r.environment,
             guide |-> Unkeyed(r.guide, r.id), workspace |-> Unkeyed(r.workspace, r.id),
             previous |-> r.previous, next |-> r.next] : r \in d[t]}
      [] t = "task_conditions" ->
           {[at |-> ConditionAt(d, r), type |-> r.type, in |-> r.in, is |-> r.is,
             value |-> Unkeyed(r.value, LessonOfCondition(d, r))] : r \in d[t]}
      [] OTHER -> Fields(d, t)

\* C12 (amended): two successful runs in succession over an unchanged tree
\* leave the same Course rows, the same number of rows of every kind, and
\* equal values in every field other than the generated identifiers, the
\* foreign keys, and the blob references (Lesson.guide, Lesson.workspace, a
\* file Condition.value), whose names embed the lesson's generated
\* identifier and which are equal once that identifier is set aside.
RerunLeavesSameRows ==
    BothRunsSucceeded =>
        \A t \in Tables :
            /\ Cardinality(db[t]) = Cardinality(finished[Len(finished)].db[t])
            /\ FieldsUnkeyed(db, t) = FieldsUnkeyed(finished[Len(finished)].db, t)

RichTreeSyncedTwice ==
    /\ BothRunsSucceeded
    /\ db["task_conditions"] # {}
    /\ \E l \in db["lessons"] : l.workspace # NULL /\ l.next # NULL

\* --------------------------------------------------- referential integrity
ParentOf == [t \in Tables \ {"courses"} |->
                CASE t = "chapters" -> "courses"
                  [] t = "lessons" -> "chapters"
                  [] t = "tasks" -> "lessons"
                  [] t = "task_conditions" -> "tasks"]

ForeignKey(t, r) ==
    CASE t = "chapters" -> r.course
      [] t = "lessons" -> r.chapter
      [] t = "tasks" -> r.lesson
      [] t = "task_conditions" -> r.task

\* The upserts into table t that the store accepted before entry n.
AcceptedBefore(n, t) ==
    {m \in 1..(n - 1) : ops[m].op = "upsert" /\ ops[m].on = t /\ ops[m].ok}

\* The identifier the store returned for the latest of them.
ReturnedId(m) == IF ops[m].on = "courses" THEN ops[m].ref ELSE ops[m].ref[1]
LatestBefore(n, t) ==
    LET A == AcceptedBefore(n, t) IN CHOOSE m \in A : \A x \in A : x <= m

\* C13: in every state after the purge, halted runs included, every child
\* row this run wrote carries the identifier the store returned for the
\* parent upserted for the directory (or task) it comes from, that parent row
\* exists and was written before the child; a Lesson row's chapter is the
\* row of the chapter directory its guide was read from. Once the purge has
\* removed the earlier rows, that is every row of the store.
ChildrenFollowParents ==
    /\ \A n \in DOMAIN ops :
        (ops[n].op = "upsert" /\ ops[n].on # "courses" /\ ops[n].ok) =>
            LET t == ops[n].on
                rows == {r \in db[t] : r.id = ops[n].ref[1]}
            IN  /\ Cardinality(rows) = 1
                /\ AcceptedBefore(n, ParentOf[t]) # {}
                /\ \A r \in rows :
                    /\ ForeignKey(t, r) = ReturnedId(LatestBefore(n, ParentOf[t]))
                    /\ \E q \in db[ParentOf[t]] : q.id = ForeignKey(t, r)
                    /\ t = "lessons" =>
                        \* ops[n - 1] read <<"dir", c, h, l>>/guide.md
                        LET dir == ops[n - 1].ref
                            ch == CHOOSE q \in db["chapters"] : q.id = r.chapter
                        IN  /\ ops[n - 1].op = "readFile" /\ ops[n - 1].ok
                            /\ ch.course = <<"uuid", dir[2]>>
                            /\ ch.index = dir[3] - 1
    /\ (pc # "purge" /\ faults = 0) =>
        \A t \in Tables \ {"courses"} : \A r \in db[t] :
            \E q \in db[ParentOf[t]] : q.id = ForeignKey(t, r)

HaltedAfterCondition ==
    /\ pc = "returned"
    /\ NewRows("task_conditions") # {}
    /\ \E n \in DOMAIN ops : ops[n].op = "upsert" /\ ops[n].on = "task_conditions" /\ ops[n].ok

\* ------------------------------------------------------- halting halfway
\* Every chapter, lesson, task and condition the tree holds for course c has
\* its row.
CourseCompleteIn(c, chs) ==
    /\ Cardinality(chs) = Len(c.chapters)
    /\ \A ch \in chs :
        LET dirs == GlobLessonDirs(c, ChaptersOf(c)[ch.index + 1]) IN
        /\ Cardinality(LessonRowsOf(ch)) = Len(dirs)
        /\ \A l \in LessonRowsOf(ch) :
            /\ Cardinality(TaskRowsOf(l)) = TaskCount(dirs[l.index + 1])
            /\ \A t \in TaskRowsOf(l) :
                Cardinality(ConditionRowsOf(t)) =
                    Len(dirs[l.index + 1].tasks[t.index + 1].conditions)

CourseComplete(c) == CourseCompleteIn(c, ChapterRowsOf(c))

\* Entry n of the log is an update of the navigation pass: it follows a select
\* or the navigation update of another lesson (the write-backs of guide and
\* workspace follow an upload, existsSync, or the write-back of the same
\* lesson).
IsNavUpdate(n) ==
    /\ ops[n].op = "update" /\ ops[n].on = "lessons"
    /\ n > 1
    /\ \/ ops[n - 1].op = "select"
       \/ ops[n - 1].op = "update" /\ ops[n - 1].ref # ops[n].ref

NavUpdatesOf(l) == {n \in DOMAIN ops : IsNavUpdate(n) /\ ops[n].ok /\ ops[n].ref = <<l.id>>}

CourseLinked(c) ==
    \A ch \in ChapterRowsOf(c) : \A l \in LessonRowsOf(ch) : NavUpdatesOf(l) # {}

Halted == pc \in {"returned", "thrown"}

HaltLeavesPrefix ==
    /\ \A r \in db["courses"] : r.id[2] <= courseIx + 1
    /\ \A r \in db["chapters"] : r.course[2] <= courseIx + 1
    /\ \A c \in 1..courseIx : CourseComplete(fs[c]) /\ CourseLinked(fs[c])
    /\ \A n \in DOMAIN ops :
        (ops[n].op = "upsert" /\ ops[n].ok) =>
            \E r \in db[ops[n].on] :
                r.id = IF ops[n].on = "courses" THEN ops[n].ref ELSE ops[n].ref[1]

NoEarlierRows ==
    /\ \A t \in Tables \ {"courses"} : \A r \in db[t] : r.id \notin OldIds
    /\ \A r \in db["courses"] :
        \E n \in DOMAIN ops :
            ops[n].op = "upsert" /\ ops[n].on = "courses" /\ ops[n].ok /\ ops[n].ref = r.id

\* C14: when a run halts at a failure while processing course k, the store
\* holds no row of a course after k and none of the rows that existed before
\* the purge; every course before k is fully rebuilt, navigation included,
\* and the rows of course k written before the failure remain.
HaltKeepsOnlyRebuiltRows == Halted => (HaltLeavesPrefix /\ NoEarlierRows)

\* The same, for the runs whose purge deletes all succeeded.
HaltAfterCleanPurge == (Halted /\ faults = 0) => (HaltLeavesPrefix /\ NoEarlierRows)

\* ------------------------------------------------------ navigation phase
\* Every row of course c has been written by this run.
CourseWritten(c) ==
    CourseCompleteIn(c, {ch \in ChapterRowsOf(c) : ch.id \notin OldIds})

CourseOfLesson(l) ==
    fs[CHOOSE c \in DOMAIN fs : \E ch \in ChapterRowsOf(fs[c]) : ch.id = l.chapter]

InNavigationPass ==
    pc \in {"navSelectChapters", "navSelectLessons", "navSelectPrevious", "navUpdate"}

\* C15: the navigation pass of a course starts only once every Chapter,
\* Lesson, Task and Condition row of the course is written; a lesson's
\* previous/next is written only by that pass, is null until then, and in a
\* successful run is written exactly once.
NavigationIsLinkedLast ==
    /\ InNavigationPass => CourseWritten(course)
    /\ \A l \in NewRows("lessons") :
        /\ (NavUpdatesOf(l) = {}) => (l.previous = NULL /\ l.next = NULL)
        /\ (\E n \in DOMAIN ops : IsNavUpdate(n) /\ ops[n].ref = <<l.id>>) =>
                CourseWritten(CourseOfLesson(l))
        /\ RunSucceeded => Cardinality(NavUpdatesOf(l)) = 1

TwoChaptersLinkedOnce ==
    /\ RunSucceeded
    /\ \E l \in NewRows("lessons") :
        /\ l.next # NULL /\ l.next[2] = 1
        /\ Cardinality(NavUpdatesOf(l)) = 1

\* ------------------------------------------------------ one thing at a time
\* <<"dir", c, h, l>> comes before <<"dir", c2, h2, l2>> in the walk.
WalkedBefore(a, b) ==
    \/ a[2] < b[2]
    \/ a[2] = b[2] /\ a[3] < b[3]
    \/ a[2] = b[2] /\ a[3] = b[3] /\ a[4] < b[4]

\* C16: the operations of a run are issued one after another: no delete of
\* the purge comes after an operation of the rebuild, the lesson directories
\* are read one at a time in walk order, and every upload and write-back
\* issued between two lesson upserts belongs to the earlier of them.
OneOperationAtATime ==
    \A n \in DOMAIN ops :
        /\ ops[n].op = "delete" => \A m \in 1..n : ops[m].op = "delete"
        /\ (ops[n].op = "readFile" /\ ops[n].on = "guide.md") =>
            \A m \in 1..(n - 1) :
                (ops[m].op = "readFile" /\ ops[m].on = "guide.md") =>
                    WalkedBefore(ops[m].ref, ops[n].ref)
        /\ ops[n].op = "upload" =>
            /\ AcceptedBefore(n, "lessons") # {}
            /\ ops[n].ref[2][2] = ReturnedId(LatestBefore(n, "lessons"))
        /\ (ops[n].op = "update" /\ ~IsNavUpdate(n)) =>
            /\ AcceptedBefore(n, "lessons") # {}
            /\ ops[n].ref = <<ReturnedId(LatestBefore(n, "lessons"))>>

TwoLessonsWalked ==
    /\ pc = "done"
    /\ \E m, n \in DOMAIN ops :
        /\ m < n
        /\ ops[m].op = "readFile" /\ ops[m].on = "guide.md"
        /\ ops[n].op = "readFile" /\ ops[n].on = "guide.md"
        /\ \E x \in DOMAIN ops : x > n /\ ops[x].op = "upload"
    /\ ops[1].op = "delete"

\* ------------------------------------------------------ the process result
\* C17: a run that halts early because a store or blob operation returned an
\* error ends with a process result other than that of a completed run.
HaltedRunIsTold ==
    (pc = "returned" /\ ~Last(ops).ok) => ExitCode(pc) # ExitCode("done")

LessonWithoutTaskListSynced ==
    /\ RunSucceeded
    /\ \E l \in NewRows("lessons") : ~DirOfLesson(l).hasTasks /\ TaskRowsOf(l) = {}

RECURSIVE Sum(_)
Sum(s) == IF s = <<>> THEN 0 ELSE Head(s) + Sum(Tail(s))

Max(S) == CHOOSE x \in S : \A y \in S : y <= x

\* How many operations main() can issue, counted on the tree.
\* A condition: stat, upload, upsert.  A task: its upsert and its conditions.
TaskBudget(t) == 1 + 3 * Len(t.conditions)
\* A lesson: readFile, upsert, upload, existsSync, tar, upload, update,
\* update; then its tasks.
LessonBudget(l) == 8 + Sum([j \in 1..TaskCount(l) |-> TaskBudget(l.tasks[j])])
\* A chapter: upsert, glob; then its lessons.
ChapterBudget(c, h) ==
    LET dirs == GlobLessonDirs(c, ChaptersOf(c)[h])
    IN  2 + Sum([n \in DOMAIN dirs |-> LessonBudget(dirs[n])])
\* One round of the navigation pass: two selects, then for each lesson found
\* an update, once preceded by a select; the lessons found are those of one
\* chapter row of the course, of this run or of the one before.
NavBudget(c) ==
    LET found == {1} \cup {Len(GlobLessonDirs(c, ChaptersOf(c)[h])) : h \in DOMAIN c.chapters}
    IN  Len(c.chapters) * (3 + Max(found))
\* A course: readFile, upsert; its chapters; its navigation pass.
CourseBudget(c) ==
    2 + Sum([h \in DOMAIN c.chapters |-> ChapterBudget(c, h)]) + NavBudget(c)
\* A run: the five deletes, the glob, the courses.
OpsBudget == Len(PurgeOrder) + 1 + Sum([c \in DOMAIN fs |-> CourseBudget(fs[c])])

\* C19: every run over a finite tree terminates: each step issues one more
\* operation, a run never issues more operations than its tree allows, and
\* it can always take a step until main() has settled -- at the end of the
\* last course or at its first failure.
RunIsBounded ==
    /\ [](Len(ops) <= OpsBudget)
    /\ [](~Ended => ENABLED Next)
    /\ [][Len(ops') = Len(ops) + 1]_vars

\* Under fair scheduling main() settles.
EventuallyEnds == <>Ended

LongestRunEnded ==
    /\ pc = "done"
    /\ Len(fs) = MaxCourses
    /\ \A n \in DOMAIN ops : ops[n].ok
    /\ \E n \in DOMAIN ops : IsNavUpdate(n)

\* --------------------------------------------------------- malformed guides
\* The lesson directory whose guide.md entry n of the log read.
DirRead(n) ==
    LET p == ops[n].ref
    IN  fs[p[2]].dirs[PathSafe(fs[p[2]].chapters[p[3]])][p[4]]

GuideReads == {n \in DOMAIN ops : ops[n].op = "readFile" /\ ops[n].on = "guide.md"}

\* C20: a run halts at the lesson whose guide.md is missing, cannot be
\* parsed or lacks its name: nothing is issued after the read, and no Lesson
\* row without a name is ever stored.
MalformedGuideHalts ==
    /\ \A n \in GuideReads :
        DirRead(n).guide # "ok" => (n = Len(ops) /\ pc = "thrown")
    /\ \A l \in NewRows("lessons") : l.name # NULL

\* What holds of it: a guide.md that cannot be read or parsed ends the run
\* before the lesson's upsert.
UnreadableGuideHalts ==
    \A n \in GuideReads :
        DirRead(n).guide = "missing" => (n = Len(ops) /\ pc = "thrown" /\ ~ops[n].ok)

\* ------------------------------------------------------------------ slugs
\* A sequence with every run of "-" reduced to one "-".
RECURSIVE Squeeze(_)
Squeeze(s) ==
    IF Len(s) < 2 THEN s
    ELSE IF s[1] = "-" /\ s[2] = "-" THEN Squeeze(Tail(s))
         ELSE <<s[1]>> \o Squeeze(Tail(s))

\* The name lower-cased, every maximal run of non-alphanumeric characters
\* replaced by one "-".
RunsReplaced(name) ==
    Squeeze([n \in DOMAIN name |->
                IF name[n] \in AlphaNum THEN ToLowerCase(name[n]) ELSE "-"])

\* C21: the slug under which main() looks for a chapter's directory is the
\* declared name lower-cased with every maximal run of non-alphanumeric
\* characters replaced by a single "-".
SlugReplacesRuns ==
    pc = "globLessons" => chapter.pathSafe = RunsReplaced(chapter.name)

\* What holds of it: one "-" for each non-alphanumeric character.
SlugReplacesCharacters ==
    pc = "globLessons" =>
        /\ Len(chapter.pathSafe) = Len(chapter.name)
        /\ \A n \in DOMAIN chapter.name :
            chapter.pathSafe[n] =
                IF chapter.name[n] \in AlphaNum THEN ToLowerCase(chapter.name[n]) ELSE "-"

\* ------------------------------------------------------ dangling pointers
\* A pointer <<uuid, chapter index, lesson index>> designates a Lesson row
\* of course c.
Designates(c, ptr) ==
    /\ ptr[1] = c.uuid
    /\ ptr[2] >= 0 /\ ptr[3] >= 0
    /\ <<ptr[2], ptr[3]>> \in LessonPositions(c)

\* C22: after a successful run every non-null previous or next of a Lesson
\* designates a position at which a Lesson row of the course exists, for
\* courses with a chapter of zero lessons too; no lesson index is negative.
PointersDesignateLessons ==
    RunSucceeded =>
        \A c \in DOMAIN fs : \A ch \in ChapterRowsOf(fs[c]) : \A l \in LessonRowsOf(ch) :
            /\ l.previous # NULL => Designates(fs[c], l.previous)
            /\ l.next # NULL => Designates(fs[c], l.next)

\* The same, for the courses in which every declared chapter has a lesson.
PointersOfFullChapters == EveryChapterHasALesson => PointersDesignateLessons

\* --------------------------------------------------------- blob references
Buckets == {"guides", "starter-workspaces", "misc-course-content"}

IsBlobReference(v) == v # NULL /\ v[1] \in Buckets

\* An upload under this key succeeded in this run.
Uploaded(key) ==
    \E n \in DOMAIN ops :
        ops[n].op = "upload" /\ ops[n].on = key[1] /\ ops[n].ok /\ ops[n].ref = key

\* The reference names a blob in storage, uploaded in this run under a key
\* that carries the lesson's identifier.
RefersToOwnBlob(ref, lessonId) ==
    /\ ref \in DOMAIN blobs
    /\ Uploaded(ref)
    /\ ref[2][2] = lessonId

\* C23: in every state, every guide or workspace reference on a Lesson row
\* this run wrote, and every blob reference stored as the value of a
\* Condition row it wrote, names a blob that is in storage, was uploaded
\* earlier in this run, and is keyed by that row's own lesson identifier.
ReferencesFollowUploads ==
    /\ \A l \in NewRows("lessons") :
        /\ l.guide # NULL =>
            (l.guide = Key("guides", GuideName(l.id)) /\ RefersToOwnBlob(l.guide, l.id))
        /\ l.workspace # NULL =>
            (l.workspace = Key("starter-workspaces", WorkspaceName(l.id))
             /\ RefersToOwnBlob(l.workspace, l.id))
    /\ \A k \in NewRows("task_conditions") :
        IsBlobReference(k.value) =>
            (k.value[1] = "misc-course-content"
             /\ RefersToOwnBlob(k.value, LessonOfCondition(db, k)))

EveryReferenceWritten ==
    /\ \E l \in NewRows("lessons") : l.guide # NULL /\ l.workspace # NULL
    /\ \E k \in NewRows("task_conditions") : IsBlobReference(k.value)

\* ----------------------------------------------------------- key collisions
\* The accepted uploads of condition files, and the file each one sent (the
\* value its stat, the entry before, was given).
FileUploads ==
    {n \in DOMAIN ops : ops[n].op = "upload" /\ ops[n].on = "misc-course-content" /\ ops[n].ok}
FileSent(n) == ops[n - 1].ref

\* C24: within one lesson, the files of two conditions that name different
\* existing files are uploaded under different keys, and the blob under
\* each key holds the bytes of the file uploaded under it.
DistinctFilesDistinctKeys ==
    \A m, n \in FileUploads :
        (m < n /\ ops[m].ref[2][2] = ops[n].ref[2][2] /\ FileSent(m) # FileSent(n)) =>
            /\ ops[m].ref # ops[n].ref
            /\ blobs[ops[m].ref][3] = FileSent(m)
            /\ blobs[ops[n].ref][3] = FileSent(n)

\* --------------------------------------------------------- slug collisions
\* C25: after a successful run each lesson directory is the origin of one
\* Lesson row: no directory's guide is read twice, and no two Chapter rows
\* of a course whose declared names give the same slug both hold lessons.
EachDirectoryOnce ==
    RunSucceeded =>
        /\ \A m, n \in GuideReads : m # n => ops[m].ref # ops[n].ref
        /\ \A c \in DOMAIN fs : \A a, b \in ChapterRowsOf(fs[c]) :
            (a.index # b.index /\ PathSafe(a.name) = PathSafe(b.name)) =>
                (LessonRowsOf(a) = {} \/ LessonRowsOf(b) = {})

\* ------------------------------------------------------- blobs are kept
\* The blob references the rows of database d carry.
ReferencedIn(d) ==
    {l.guide : l \in d["lessons"]} \cup {l.workspace : l \in d["lessons"]}
        \cup {k.value : k \in d["task_conditions"]}

\* The blobs a run left that no row references any more.
Orphans(n) == (DOMAIN finished[n].blobs \cap DOMAIN blobs) \ ReferencedIn(db)

\* C26: no step of a run removes a blob: a step that changes blob storage is
\* an accepted upload and creates or overwrites the one key it names, all
\* other blobs staying as they were; so across runs the keys only grow, and
\* after the next successful run the blobs of the run before are all still
\* in storage, those keyed by its lesson identifiers referenced by no row.
BlobsOnlyGrow ==
    /\ [][/\ DOMAIN blobs \subseteq DOMAIN blobs'
          /\ blobs' # blobs =>
                /\ Last(ops').op = "upload" /\ Last(ops').ok
                /\ DOMAIN blobs' = DOMAIN blobs \cup {Last(ops').ref}
                /\ \A x \in DOMAIN blobs \ {Last(ops').ref} : blobs'[x] = blobs[x]
          /\ (Len(ops') > 0 /\ Last(ops').op = "delete") => blobs' = blobs]_vars
    /\ [](\A n \in DOMAIN finished : DOMAIN finished[n].blobs \subseteq DOMAIN blobs)
    /\ [](BothRunsSucceeded =>
            \A l \in finished[Len(finished)].db["lessons"] :
                l.guide # NULL => l.guide \in Orphans(Len(finished)))

BlobsOfEarlierRunKept ==
    /\ BothRunsSucceeded
    /\ \E l \in finished[Len(finished)].db["lessons"] :
        /\ l.guide \in Orphans(Len(finished))
        /\ l.workspace # NULL /\ l.workspace \in Orphans(Len(finished))
    /\ \E k \in finished[Len(finished)].db["task_conditions"] :
        IsBlobReference(k.value) /\ k.value \in Orphans(Len(finished))

====
